---- MODULE Spec2Model ----
(***************************************************************************)
(* Model of the ring buffer type that #[ring_buffer(N)] generates          *)
(* (src/src/generator.rs, generate_impl) for one instance of the type.     *)
(*                                                                         *)
(* self  : the generated struct { data: Vec<T>, capacity, head, tail,      *)
(*         size }.  Rust indices are 0-based, TLA+ sequences 1-based: the  *)
(*         slot data[i] of the code is self.data[i + 1] here (see At).     *)
(* args  : the macro's parsed argument (RingBufferArgs), which generation  *)
(*         splices into new() as the literal #capacity.                    *)
(* ret   : the last call made on the instance and what it returned.        *)
(***************************************************************************)
EXTENDS Integers, Sequences, FiniteSets, TLC

VARIABLES
    args,     \* RingBufferArgs { capacity }
    self,     \* the ring buffer instance
    ret,      \* last call: [op, arg, tag, val]
    queue,    \* reference model: the abstract bounded FIFO queue
    qret,     \* what the abstract queue answered to the last call
    fresh,    \* a second instance, constructed by new() at the last clear()
    fret,     \* what the second instance answered to the last call
    pc,       \* position in the wraparound scenario ("free": no script)
    k,        \* wraparound scenario: number of items drained and refilled
    ins,      \* wraparound scenario: items passed to enqueue, in order
    rets,     \* wraparound scenario: every result returned, in order
    tok,      \* macro expansion: the attribute's argument tokens
    decl,     \* macro expansion: the DeriveInput, which add_fields mutates
    decl0,    \* macro expansion: the DeriveInput as the caller wrote it
    stage,    \* macro expansion: the statement of ring_buffer() to run next
    elem,     \* macro expansion: element_type, once find_data_field returned it
    error,    \* macro expansion: the error that ended it, if any
    log,      \* macro expansion: the checks and stages executed, in order
    out       \* macro expansion: the items of the returned token stream

Macro == <<tok, decl, decl0, stage, elem, error, log, out>>

vars == <<args, self, ret, queue, qret, fresh, fret, pc, k, ins, rets,
          tok, decl, decl0, stage, elem, error, log, out>>

\* ---------------------------------------------------------------- bounds

\* Largest capacity literal tried.
MaxCap == 4
\* Largest capacity literal tried in the wraparound scenario.
WrapMaxCap == 5
\* Number of distinct element values.
NumItems == 2

Items == 1 .. NumItems
Capacities == 1 .. MaxCap
WrapCapacities == 1 .. WrapMaxCap

\* ------------------------------------------------------- return values

\* A call's outcome.  arg and val are <<>> (absent) or <<x>> (present): the
\* item passed to enqueue, and the payload of Err(item), Some(item) or of a
\* query's answer.
Result(op, arg, tag, val) == [op |-> op, arg |-> arg, tag |-> tag, val |-> val]

NoVal == <<>>

\* The macro has expanded before any instance exists at run time; its input
\* and output are not part of the run-time state.
Expanded ==
    /\ tok = NoVal /\ decl = NoVal /\ decl0 = NoVal
    /\ stage = "expanded"
    /\ elem = NoVal /\ error = NoVal /\ log = <<>> /\ out = <<>>

\* data[i] with the code's 0-based index.
At(data, i) == data[i + 1]

\* data[i] = item: the sequence with slot i (0-based) replaced.
SetAt(data, i, item) == [data EXCEPT ![i + 1] = item]

\* ------------------------------------------------- generated operations

\* new() with the capacity literal spliced into the wrong field.
new_size_capacity ==
    [data |-> <<>>, capacity |-> args.capacity, head |-> 0, tail |-> 0,
     size |-> args.capacity]

\* fn new() -> Self
new ==
    [data |-> <<>>, capacity |-> args.capacity, head |-> 0, tail |-> 0, size |-> 0]

\* is_full() with `>` for `==`.
is_full_off_by_one(s) == s.size > s.capacity

\* fn is_full(&self) -> bool
is_full(s) == s.size = s.capacity

\* is_empty() decided by the cursors instead of the counter.
is_empty_by_cursors(s) == s.head = s.tail

\* fn is_empty(&self) -> bool
is_empty(s) == s.size = 0

\* fn len(&self) -> usize
len(s) == s.size

\* fn capacity(&self) -> usize
capacity(s) == s.capacity

\* enqueue() that overwrites the oldest element when full.
enqueue_overwrites_when_full(s, item) ==
    IF is_full(s) /\ s.capacity > 0 /\ s.tail < Len(s.data)
    THEN [self |-> [s EXCEPT !.data = SetAt(s.data, s.tail, item),
                             !.tail = (s.tail + 1) % s.capacity,
                             !.head = (s.head + 1) % s.capacity],
          ret  |-> Result("enqueue", <<item>>, "Ok", NoVal)]
    ELSE IF is_full(s)
    THEN [self |-> s, ret |-> Result("enqueue", <<item>>, "Err", <<item>>)]
    ELSE [self |-> [s EXCEPT !.data = IF Len(s.data) <= s.tail
                                      THEN Append(s.data, item)
                                      ELSE SetAt(s.data, s.tail, item),
                             !.tail = (s.tail + 1) % s.capacity,
                             !.size = s.size + 1],
          ret  |-> Result("enqueue", <<item>>, "Ok", NoVal)]

\* enqueue() whose tail does not wrap.
enqueue_no_wrap(s, item) ==
    IF is_full(s)
    THEN [self |-> s, ret |-> Result("enqueue", <<item>>, "Err", <<item>>)]
    ELSE [self |-> [s EXCEPT !.data = IF Len(s.data) <= s.tail
                                      THEN Append(s.data, item)
                                      ELSE SetAt(s.data, s.tail, item),
                             !.tail = s.tail + 1,
                             !.size = s.size + 1],
          ret  |-> Result("enqueue", <<item>>, "Ok", NoVal)]

\* enqueue() that always appends and never reuses a slot.
enqueue_always_push(s, item) ==
    IF is_full(s)
    THEN [self |-> s, ret |-> Result("enqueue", <<item>>, "Err", <<item>>)]
    ELSE [self |-> [s EXCEPT !.data = Append(s.data, item),
                             !.tail = (s.tail + 1) % s.capacity,
                             !.size = s.size + 1],
          ret  |-> Result("enqueue", <<item>>, "Ok", NoVal)]

\* enqueue() that writes the item at the front of the contents (slot head).
enqueue_at_head(s, item) ==
    IF is_full(s)
    THEN [self |-> s, ret |-> Result("enqueue", <<item>>, "Err", <<item>>)]
    ELSE [self |-> [s EXCEPT !.data = IF Len(s.data) <= s.head
                                      THEN Append(s.data, item)
                                      ELSE SetAt(s.data, s.head, item),
                             !.tail = (s.tail + 1) % s.capacity,
                             !.size = s.size + 1],
          ret  |-> Result("enqueue", <<item>>, "Ok", NoVal)]

\* fn enqueue(&mut self, item: T) -> Result<(), T>
\* Yields the instance after the call and the returned value.  `% 0` aborts
\* in Rust (remainder with a divisor of zero) after the slot was written.
enqueue(s, item) ==
    IF is_full(s)
    THEN [self |-> s, ret |-> Result("enqueue", <<item>>, "Err", <<item>>)]
    ELSE LET written ==
                 IF Len(s.data) <= s.tail
                 THEN [s EXCEPT !.data = Append(s.data, item)]
                 ELSE [s EXCEPT !.data = SetAt(s.data, s.tail, item)]
         IN  IF s.capacity = 0
             THEN [self |-> written, ret |-> Result("enqueue", <<item>>, "Panic", NoVal)]
             ELSE [self |-> [written EXCEPT !.tail = (s.tail + 1) % s.capacity,
                                            !.size = s.size + 1],
                   ret  |-> Result("enqueue", <<item>>, "Ok", NoVal)]

\* dequeue() whose head does not wrap.
dequeue_no_wrap(s) ==
    IF is_empty(s)
    THEN [self |-> s, ret |-> Result("dequeue", NoVal, "None", NoVal)]
    ELSE IF s.head >= Len(s.data)
         THEN [self |-> s, ret |-> Result("dequeue", NoVal, "Panic", NoVal)]
         ELSE [self |-> [s EXCEPT !.head = s.head + 1, !.size = s.size - 1],
               ret  |-> Result("dequeue", NoVal, "Some", <<At(s.data, s.head)>>)]

\* dequeue() that advances head before it tests for emptiness.
dequeue_advances_on_empty(s) ==
    LET moved == [s EXCEPT !.head = (s.head + 1) % s.capacity]
    IN  IF is_empty(s)
        THEN [self |-> moved, ret |-> Result("dequeue", NoVal, "None", NoVal)]
        ELSE IF s.head >= Len(s.data)
             THEN [self |-> s, ret |-> Result("dequeue", NoVal, "Panic", NoVal)]
             ELSE [self |-> [moved EXCEPT !.size = s.size - 1],
                   ret  |-> Result("dequeue", NoVal, "Some", <<At(s.data, s.head)>>)]

\* dequeue() that takes the element out of the store (data.remove(head)).
dequeue_removes_slot(s) ==
    IF is_empty(s)
    THEN [self |-> s, ret |-> Result("dequeue", NoVal, "None", NoVal)]
    ELSE IF s.head >= Len(s.data) \/ s.capacity = 0
         THEN [self |-> s, ret |-> Result("dequeue", NoVal, "Panic", NoVal)]
         ELSE [self |-> [s EXCEPT !.data = SubSeq(s.data, 1, s.head)
                                            \o SubSeq(s.data, s.head + 2, Len(s.data)),
                                  !.head = (s.head + 1) % s.capacity,
                                  !.size = s.size - 1],
               ret  |-> Result("dequeue", NoVal, "Some", <<At(s.data, s.head)>>)]

\* fn dequeue(&mut self) -> Option<T>
\* data[head] aborts when head is not an index of data, `% 0` aborts, and
\* `size -= 1` on 0 aborts under overflow checks; none changes the instance
\* before aborting except the head update that precedes the subtraction.
dequeue(s) ==
    IF is_empty(s)
    THEN [self |-> s, ret |-> Result("dequeue", NoVal, "None", NoVal)]
    ELSE IF s.head >= Len(s.data) \/ s.capacity = 0
         THEN [self |-> s, ret |-> Result("dequeue", NoVal, "Panic", NoVal)]
         ELSE LET item  == At(s.data, s.head)
                  moved == [s EXCEPT !.head = (s.head + 1) % s.capacity]
              IN  IF s.size < 1
                  THEN [self |-> moved, ret |-> Result("dequeue", NoVal, "Panic", NoVal)]
                  ELSE [self |-> [moved EXCEPT !.size = s.size - 1],
                        ret  |-> Result("dequeue", NoVal, "Some", <<item>>)]

\* clear() that also empties the backing store (data.clear()).
clear_truncates(s) ==
    [self |-> [s EXCEPT !.data = <<>>, !.head = 0, !.tail = 0, !.size = 0],
     ret  |-> Result("clear", NoVal, "Unit", NoVal)]

\* clear() that zeroes every counter, capacity included.
clear_zeroes_capacity(s) ==
    [self |-> [s EXCEPT !.capacity = 0, !.head = 0, !.tail = 0, !.size = 0],
     ret  |-> Result("clear", NoVal, "Unit", NoVal)]

\* clear() that forgets to reset head.
clear_keeps_head(s) ==
    [self |-> [s EXCEPT !.tail = 0, !.size = 0],
     ret  |-> Result("clear", NoVal, "Unit", NoVal)]

\* fn clear(&mut self)
clear(s) ==
    [self |-> [s EXCEPT !.head = 0, !.tail = 0, !.size = 0],
     ret  |-> Result("clear", NoVal, "Unit", NoVal)]

\* The four queries, as calls with a returned value.
query(s, op) ==
    Result(op, NoVal, "Value",
           << CASE op = "is_full"  -> is_full(s)
                [] op = "is_empty" -> is_empty(s)
                [] op = "len"      -> len(s)
                [] OTHER           -> capacity(s) >>)

\* ------------------------------------------- abstract bounded FIFO queue
\* The reference the buffer is compared with: a sequence of at most c
\* elements, front first.  It is run beside the instance, call by call.

AbsEnqueue(q, c, item) ==
    IF Len(q) < c
    THEN [queue |-> Append(q, item), ret |-> Result("enqueue", <<item>>, "Ok", NoVal)]
    ELSE [queue |-> q, ret |-> Result("enqueue", <<item>>, "Err", <<item>>)]

AbsDequeue(q) ==
    IF q = <<>>
    THEN [queue |-> q, ret |-> Result("dequeue", NoVal, "None", NoVal)]
    ELSE [queue |-> Tail(q), ret |-> Result("dequeue", NoVal, "Some", <<Head(q)>>)]

AbsClear(q) ==
    [queue |-> <<>>, ret |-> Result("clear", NoVal, "Unit", NoVal)]

AbsQuery(q, c, op) ==
    Result(op, NoVal, "Value",
           << CASE op = "is_full"  -> Len(q) = c
                [] op = "is_empty" -> q = <<>>
                [] op = "len"      -> Len(q)
                [] OTHER           -> c >>)

\* ---------------------------------------------------------------- calls

\* A call that aborted unwinds: nothing is called on the instance afterwards.
Aborted == ret.tag = "Panic" \/ fret.tag = "Panic"

Script == <<pc, k, ins, rets>>

\* buf.enqueue(item) on the instance, on the second instance and on the
\* abstract queue.
DoEnqueue(item) ==
    LET r == enqueue(self, item)
        f == enqueue(fresh, item)
        a == AbsEnqueue(queue, args.capacity, item)
    IN  /\ self' = r.self /\ ret' = r.ret
        /\ fresh' = f.self /\ fret' = f.ret
        /\ queue' = a.queue /\ qret' = a.ret
        /\ UNCHANGED <<args, Macro>>

\* buf.dequeue()
DoDequeue ==
    LET r == dequeue(self)
        f == dequeue(fresh)
        a == AbsDequeue(queue)
    IN  /\ self' = r.self /\ ret' = r.ret
        /\ fresh' = f.self /\ fret' = f.ret
        /\ queue' = a.queue /\ qret' = a.ret
        /\ UNCHANGED <<args, Macro>>

\* buf.clear().  The second instance is either cleared as well, or replaced
\* by a newly constructed one (restart) against which the calls that follow
\* are compared.
DoClear(restart) ==
    LET r == clear(self)
        f == clear(fresh)
        a == AbsClear(queue)
    IN  /\ self' = r.self /\ ret' = r.ret
        /\ fresh' = (IF restart THEN new ELSE f.self) /\ fret' = f.ret
        /\ queue' = a.queue /\ qret' = a.ret
        /\ UNCHANGED <<args, Macro>>

\* buf.is_full(), buf.is_empty(), buf.len(), buf.capacity(): &self, no change.
DoQuery(op) ==
    /\ ret' = query(self, op)
    /\ fret' = query(fresh, op)
    /\ qret' = AbsQuery(queue, args.capacity, op)
    /\ UNCHANGED <<args, self, fresh, queue, Macro>>

\* ------------------------------------------------- any sequence of calls

\* The state after `let mut buf = B::new();` for a capacity literal the
\* parser accepts (capacity > 0).
Init ==
    /\ args \in [capacity : Capacities]
    /\ self = new
    /\ ret = Result("new", NoVal, "Unit", NoVal)
    /\ queue = <<>>
    /\ qret = ret
    /\ fresh = new
    /\ fret = ret
    /\ pc = "free"
    /\ k = 0
    /\ ins = <<>>
    /\ rets = <<>>
    /\ Expanded

Enqueue == pc = "free" /\ ~Aborted /\ \E item \in Items : DoEnqueue(item) /\ UNCHANGED Script

Dequeue == pc = "free" /\ ~Aborted /\ DoDequeue /\ UNCHANGED Script

Clear == pc = "free" /\ ~Aborted /\ \E restart \in BOOLEAN : DoClear(restart) /\ UNCHANGED Script

IsFull == pc = "free" /\ ~Aborted /\ DoQuery("is_full") /\ UNCHANGED Script

IsEmpty == pc = "free" /\ ~Aborted /\ DoQuery("is_empty") /\ UNCHANGED Script

Len_ == pc = "free" /\ ~Aborted /\ DoQuery("len") /\ UNCHANGED Script

Capacity == pc = "free" /\ ~Aborted /\ DoQuery("capacity") /\ UNCHANGED Script

Next == Enqueue \/ Dequeue \/ Clear \/ IsFull \/ IsEmpty \/ Len_ \/ Capacity

Spec == Init /\ [][Next]_vars

\* ------------------------------------------------ the wraparound scenario
\* tests.rs, test_wraparound_behavior, for any capacity c and any k < c:
\* c enqueues, k dequeues, k enqueues, c dequeues.  As in the test the items
\* are 1, 2, 3, ... in the order they are enqueued, so that no two are equal.

\* The phase of the scenario after n calls.
Phase(n) ==
    LET c == args.capacity
    IN  IF n < c THEN "fill"
        ELSE IF n < c + k THEN "drain"
        ELSE IF n < c + 2 * k THEN "refill"
        ELSE IF n < 2 * c + 2 * k THEN "final"
        ELSE "done"

WrapInit ==
    /\ args \in [capacity : WrapCapacities]
    /\ self = new
    /\ ret = Result("new", NoVal, "Unit", NoVal)
    /\ queue = <<>>
    /\ qret = ret
    /\ fresh = new
    /\ fret = ret
    /\ pc = "fill"
    /\ k \in 0 .. (args.capacity - 1)
    /\ ins = <<>>
    /\ rets = <<>>
    /\ Expanded

WrapEnqueue ==
    /\ pc \in {"fill", "refill"}
    /\ ~Aborted
    /\ LET item == Len(ins) + 1
       IN  DoEnqueue(item) /\ ins' = Append(ins, item)
    /\ rets' = Append(rets, ret')
    /\ pc' = Phase(Len(rets'))
    /\ UNCHANGED k

WrapDequeue ==
    /\ pc \in {"drain", "final"}
    /\ ~Aborted
    /\ DoDequeue
    /\ rets' = Append(rets, ret')
    /\ pc' = Phase(Len(rets'))
    /\ UNCHANGED <<k, ins>>

WrapNext == WrapEnqueue \/ WrapDequeue

WrapSpec == WrapInit /\ [][WrapNext]_vars

\* ======================================================= macro expansion
\* #[ring_buffer(<tok>)] applied to <decl>: src/src/lib.rs, parser.rs,
\* generator.rs and error.rs.

\* Longest capacity literal tried, in decimal digits.
MaxDigits == 5
\* Width of usize on the build target, in bits (16 keeps the literals short).
UsizeBits == 16
\* Longest list of named fields tried.
MaxFields == 2

USIZE_MAX == 2 ^ UsizeBits - 1

\* The decimal digits a literal is written with.
LitDigits == {0, 1, 9}
DigitStrings == UNION {[1 .. n -> LitDigits] : n \in 1 .. MaxDigits}

\* The argument tokens.  A LitInt is the literal's sign and its base-10
\* digits (LitInt::base10_digits; a type suffix is not part of them); rest
\* says that more tokens follow the first one.
Tokens ==
    [kind : {"LitInt"}, neg : BOOLEAN, digits : DigitStrings, rest : BOOLEAN]
    \cup [kind : {"LitStr", "Ident", "Empty"}, neg : {FALSE}, digits : {<<>>},
          rest : {FALSE}]

\* Tokens whose literal has one digit.
ShortTokens == {t \in Tokens : Len(t.digits) <= 1}

\* ---- types and declarations (syn::Type, syn::DeriveInput)

TypeArg(name) == [kind |-> "Type", name |-> name]
LifetimeArg(name) == [kind |-> "Lifetime", name |-> name]

\* syn::PathArguments
PathArguments ==
    {[kind |-> "None", args |-> <<>>],
     [kind |-> "Parenthesized", args |-> <<TypeArg("T")>>]}
    \cup {[kind |-> "AngleBracketed", args |-> al] :
            al \in {<<>>, <<TypeArg("T")>>, <<LifetimeArg("a")>>,
                    <<TypeArg("T"), TypeArg("A")>>}}

\* syn::PathSegment
Segment(ident, arguments) == [ident |-> ident, arguments |-> arguments]

\* syn::Type: a path type (one segment, or std:: before it) or a tuple type.
PathType(segments) == [kind |-> "Path", segments |-> segments]
TupleType == [kind |-> "Tuple", segments |-> <<>>]

VecOf(name) ==
    PathType(<<Segment("Vec", [kind |-> "AngleBracketed", args |-> <<TypeArg(name)>>])>>)

DataTypes ==
    {TupleType}
    \cup {PathType(prefix \o <<Segment(ident, arguments)>>) :
            prefix \in {<<>>, <<Segment("std", [kind |-> "None", args |-> <<>>])>>},
            ident \in {"Vec", "Box"},
            arguments \in PathArguments}

\* syn::Field: ident is <<>> for a positional field.
Field(ident, ty) == [ident |-> ident, ty |-> ty]

NamedFields ==
    {Field(<<"data">>, ty) : ty \in DataTypes}
    \cup {Field(<<"other">>, ty) : ty \in {VecOf("T"), TupleType}}

FieldLists == UNION {[1 .. n -> NamedFields] : n \in 0 .. MaxFields}

\* syn::DeriveInput: data is Struct, Enum or Union, fields is the struct's
\* syn::Fields (Named, Unnamed or Unit) with its list of fields, and
\* generics.where_clause is the declaration's own where clause: <<>> when it
\* has none, else its predicate as <<type, trait>>.
Decl(data, kind, list) ==
    [data |-> data,
     generics |-> [where_clause |-> NoVal],
     fields |-> [kind |-> kind, list |-> list]]

\* The where clauses a declaration is written with: none, or `where T: Clone`.
WhereClauses == {NoVal, <<TypeArg("T"), "Clone">>}

Decls ==
    LET plain ==
            {Decl("Struct", "Named", list) : list \in FieldLists}
            \cup {Decl("Struct", "Unnamed", <<Field(<<>>, VecOf("T"))>>),
                  Decl("Struct", "Unit", <<>>),
                  Decl("Enum", "Variants", <<>>),
                  Decl("Union", "Named", <<Field(<<"data">>, VecOf("T"))>>)}
    IN  {[d EXCEPT !.generics.where_clause = w] : d \in plain, w \in WhereClauses}

\* ---- results and errors (error.rs)

Ok(val) == [ok |-> TRUE, val |-> val, err |-> NoVal]
Err(err) == [ok |-> FALSE, val |-> NoVal, err |-> err]

\* crate::error::Error, with the place its span points at.
Error(kind, span) == [kind |-> kind, span |-> span, msg |-> ""]
\* Error::Syn(syn::Error)
SynError(span, msg) == [kind |-> "Syn", span |-> span, msg |-> msg]

\* Error::to_compile_error: the compile_error! item of the diagnostic.
to_compile_error(e) ==
    [item |-> "compile_error",
     span |-> e.span,
     body |-> CASE e.kind = "NotAStruct" -> "ring_buffer can only be applied to structs"
                [] e.kind = "NotNamedFields" ->
                       "ring_buffer only works with structs with named fields"
                [] e.kind = "MissingDataField" ->
                       "ring_buffer requires a field named 'data' of type Vec<T>"
                [] e.kind = "InvalidDataFieldType" -> "data field must be of type Vec<T>"
                [] OTHER -> e.msg]

\* ---- parser.rs

\* str::parse::<usize> on the digits: each step is a checked multiply and
\* add, and overflow of usize is an error.
RECURSIVE from_str(_, _)
from_str(digits, acc) ==
    IF digits = <<>> THEN Ok(acc)
    ELSE IF acc * 10 + Head(digits) > USIZE_MAX THEN Err("PosOverflow")
    ELSE from_str(Tail(digits), acc * 10 + Head(digits))

\* LitInt::base10_parse::<usize>: a `-` is no digit of a usize.
base10_parse(lit) ==
    IF lit.neg THEN Err("InvalidDigit") ELSE from_str(lit.digits, 0)

\* RingBufferArgs::parse that accepts a capacity of 0.
RingBufferArgs_parse_accepts_zero(t) ==
    IF t.kind # "LitInt"
    THEN Err(SynError("args", "expected integer literal"))
    ELSE LET parsed == base10_parse(t)
         IN  IF ~parsed.ok
             THEN Err(SynError("capacity_lit", "capacity must be a valid usize"))
             ELSE Ok([capacity |-> parsed.val])

\* impl Parse for RingBufferArgs
RingBufferArgs_parse(t) ==
    IF t.kind # "LitInt"
    THEN Err(SynError("args", "expected integer literal"))
    ELSE LET parsed == base10_parse(t)
         IN  IF ~parsed.ok
             THEN Err(SynError("capacity_lit", "capacity must be a valid usize"))
             ELSE IF parsed.val = 0
             THEN Err(SynError("capacity_lit", "capacity must be greater than 0"))
             ELSE Ok([capacity |-> parsed.val])

\* parse_macro_input!(args as RingBufferArgs): the parser must also consume
\* every token.
parse_args(t) ==
    LET r == RingBufferArgs_parse(t)
    IN  IF r.ok /\ t.rest THEN Err(SynError("rest", "unexpected token")) ELSE r

\* extract_vec_element_type that does not look at the type's name.
extract_vec_element_type_any_name(ty) ==
    IF ty.kind = "Path" /\ ty.segments # <<>>
    THEN LET segment == ty.segments[Len(ty.segments)]
         IN  IF /\ segment.arguments.kind = "AngleBracketed"
                /\ segment.arguments.args # <<>>
                /\ Head(segment.arguments.args).kind = "Type"
             THEN Ok(Head(segment.arguments.args).name)
             ELSE Err(Error("InvalidDataFieldType", "ty"))
    ELSE Err(Error("InvalidDataFieldType", "ty"))

\* fn extract_vec_element_type(ty: &Type) -> Result<Type>
\* Looks at the last segment of a path type and at the first generic
\* argument of that segment.
extract_vec_element_type(ty) ==
    IF ty.kind = "Path" /\ ty.segments # <<>>
    THEN LET segment == ty.segments[Len(ty.segments)]
         IN  IF segment.ident # "Vec"
             THEN Err(Error("InvalidDataFieldType", "segment.ident"))
             ELSE IF /\ segment.arguments.kind = "AngleBracketed"
                     /\ segment.arguments.args # <<>>
                     /\ Head(segment.arguments.args).kind = "Type"
             THEN Ok(Head(segment.arguments.args).name)
             ELSE Err(Error("InvalidDataFieldType", "ty"))
    ELSE Err(Error("InvalidDataFieldType", "ty"))

\* fields.named.iter().find(|f| f.ident == "data"): the index of the first
\* field named `data`, or 0.
find_data(list) ==
    LET hits == {i \in 1 .. Len(list) : list[i].ident = <<"data">>}
    IN  IF hits = {} THEN 0 ELSE CHOOSE i \in hits : \A j \in hits : i <= j

\* A result together with the checks that were made to reach it.
Checked(r, checks) == [ok |-> r.ok, val |-> r.val, err |-> r.err, checks |-> checks]

\* find_data_field that reports every struct without named fields as
\* NotAStruct.
find_data_field_tuple_not_a_struct(input) ==
    IF input.data # "Struct" \/ input.fields.kind # "Named"
    THEN Checked(Err(Error("NotAStruct", "input.ident")), <<"struct-kind">>)
    ELSE LET i == find_data(input.fields.list)
         IN  IF i = 0
             THEN Checked(Err(Error("MissingDataField", "input.ident")),
                          <<"struct-kind", "field-naming", "data-presence">>)
             ELSE Checked(extract_vec_element_type(input.fields.list[i].ty),
                          <<"struct-kind", "field-naming", "data-presence",
                            "element-type">>)

\* find_data_field with the two shape errors exchanged.
find_data_field_swapped(input) ==
    IF input.data # "Struct"
    THEN Checked(Err(Error("NotNamedFields", "input.ident")), <<"struct-kind">>)
    ELSE IF input.fields.kind # "Named"
    THEN Checked(Err(Error("NotAStruct", "input.ident")),
                 <<"struct-kind", "field-naming">>)
    ELSE LET i == find_data(input.fields.list)
         IN  IF i = 0
             THEN Checked(Err(Error("MissingDataField", "input.ident")),
                          <<"struct-kind", "field-naming", "data-presence">>)
             ELSE Checked(extract_vec_element_type(input.fields.list[i].ty),
                          <<"struct-kind", "field-naming", "data-presence",
                            "element-type">>)

\* fn find_data_field(input: &DeriveInput) -> Result<Type>
find_data_field(input) ==
    IF input.data # "Struct"
    THEN Checked(Err(Error("NotAStruct", "input.ident")), <<"struct-kind">>)
    ELSE IF input.fields.kind # "Named"
    THEN Checked(Err(Error("NotNamedFields", "input.ident")),
                 <<"struct-kind", "field-naming">>)
    ELSE LET i == find_data(input.fields.list)
         IN  IF i = 0
             THEN Checked(Err(Error("MissingDataField", "input.ident")),
                          <<"struct-kind", "field-naming", "data-presence">>)
             ELSE Checked(extract_vec_element_type(input.fields.list[i].ty),
                          <<"struct-kind", "field-naming", "data-presence",
                            "element-type">>)

\* ---- generator.rs

UsizeType == PathType(<<Segment("usize", [kind |-> "None", args |-> <<>>])>>)

\* add_fields that inserts the four fields before the caller's fields.
add_fields_prepends(input) ==
    IF input.data = "Struct" /\ input.fields.kind = "Named"
    THEN [input EXCEPT !.fields.list =
              <<Field(<<"capacity">>, UsizeType), Field(<<"head">>, UsizeType),
                Field(<<"tail">>, UsizeType), Field(<<"size">>, UsizeType)>> \o @]
    ELSE input

\* fn add_fields(input: &mut DeriveInput) -> Result<()>
\* Yields the declaration after the call; the result is always Ok(()).
add_fields(input) ==
    IF input.data = "Struct" /\ input.fields.kind = "Named"
    THEN [input EXCEPT !.fields.list =
              @ \o <<Field(<<"capacity">>, UsizeType), Field(<<"head">>, UsizeType),
                     Field(<<"tail">>, UsizeType), Field(<<"size">>, UsizeType)>>]
    ELSE input

\* generate_impl with the Clone bound on the impl block instead of dequeue.
generate_impl_bound_on_impl(input, element_type, cap) ==
    [item |-> "impl",
     where_clause |-> <<element_type, "Clone">>,
     capacity |-> cap,
     element_type |-> element_type,
     methods |-> << [name |-> "new", bound |-> NoVal],
                    [name |-> "enqueue", bound |-> NoVal],
                    [name |-> "dequeue", bound |-> NoVal],
                    [name |-> "is_full", bound |-> NoVal],
                    [name |-> "is_empty", bound |-> NoVal],
                    [name |-> "len", bound |-> NoVal],
                    [name |-> "capacity", bound |-> NoVal],
                    [name |-> "clear", bound |-> NoVal] >>]

\* fn generate_impl(input, element_type, capacity) -> TokenStream
\* The impl block: the where clause of its header, which is the
\* declaration's own (generics.split_for_impl()), and its methods in order,
\* each with its where clause (clone_bound on dequeue).
generate_impl(input, element_type, cap) ==
    [item |-> "impl",
     where_clause |-> input.generics.where_clause,
     capacity |-> cap,
     element_type |-> element_type,
     methods |-> << [name |-> "new", bound |-> NoVal],
                    [name |-> "enqueue", bound |-> NoVal],
                    [name |-> "dequeue", bound |-> <<element_type, "Clone">>],
                    [name |-> "is_full", bound |-> NoVal],
                    [name |-> "is_empty", bound |-> NoVal],
                    [name |-> "len", bound |-> NoVal],
                    [name |-> "capacity", bound |-> NoVal],
                    [name |-> "clear", bound |-> NoVal] >>]

\* ---- lib.rs

\* The declaration as an item of the output.
StructItem(input) == [item |-> "struct", body |-> input]

\* ring_buffer that returns the declaration beside the diagnostic.
on_error_keeps_input(e, input) == <<StructItem(input), to_compile_error(e)>>

\* ring_buffer on an error: Err(e) => e.to_compile_error().into(), and the
\* early return of parse_macro_input!.
on_error(e, input) == <<to_compile_error(e)>>

\* expand_ring_buffer's quote! { #input #implementation }
expanded(input, implementation) == <<StructItem(input), implementation>>

\* ring_buffer injecting the fields before it validates the declaration.
StageAfter_injects_first(st, failed) ==
    IF failed THEN "done"
    ELSE CASE st = "parse_args" -> "add_fields"
           [] st = "add_fields" -> "find_data_field"
           [] st = "find_data_field" -> "generate_impl"
           [] OTHER -> "done"

\* The statement that runs after statement st: `?` and the early return of
\* parse_macro_input! leave on a failure, otherwise the next statement of
\* ring_buffer / expand_ring_buffer runs.
StageAfter(st, failed) ==
    IF failed THEN "done"
    ELSE CASE st = "parse_args" -> "find_data_field"
           [] st = "find_data_field" -> "add_fields"
           [] st = "add_fields" -> "generate_impl"
           [] OTHER -> "done"

\* No instance exists while the macro expands.
NoInstance ==
    /\ self = NoVal /\ ret = NoVal
    /\ queue = NoVal /\ qret = NoVal
    /\ fresh = NoVal /\ fret = NoVal
    /\ pc = "macro" /\ k = NoVal /\ ins = NoVal /\ rets = NoVal

Runtime == <<self, ret, queue, qret, fresh, fret, pc, k, ins, rets>>

\* The failure of a statement: the error becomes the whole output.
Fail(e) ==
    /\ error' = <<e>>
    /\ out' = on_error(e, decl)
    /\ stage' = StageAfter(stage, TRUE)

\* let args = parse_macro_input!(args as RingBufferArgs);
ParseArgs ==
    /\ stage = "parse_args"
    /\ LET r == parse_args(tok)
       IN  /\ log' = Append(log, "capacity")
           /\ IF r.ok
              THEN /\ args' = r.val
                   /\ stage' = StageAfter(stage, FALSE)
                   /\ UNCHANGED <<error, out>>
              ELSE Fail(r.err) /\ UNCHANGED args
    /\ UNCHANGED <<tok, decl, decl0, elem, Runtime>>

\* let element_type = find_data_field(input)?;
FindDataField ==
    /\ stage = "find_data_field"
    /\ LET r == find_data_field(decl)
       IN  /\ log' = log \o r.checks
           /\ IF r.ok
              THEN /\ elem' = <<r.val>>
                   /\ stage' = StageAfter(stage, FALSE)
                   /\ UNCHANGED <<error, out>>
              ELSE Fail(r.err) /\ UNCHANGED elem
    /\ UNCHANGED <<args, tok, decl, decl0, Runtime>>

\* add_fields(input)?;
AddFields ==
    /\ stage = "add_fields"
    /\ decl' = add_fields(decl)
    /\ log' = Append(log, "inject")
    /\ stage' = StageAfter(stage, FALSE)
    /\ UNCHANGED <<args, tok, decl0, elem, error, out, Runtime>>

\* let implementation = generate_impl(input, &element_type, capacity);
\* Ok(quote! { #input #implementation }.into())
GenerateImpl ==
    /\ stage = "generate_impl"
    /\ out' = expanded(decl, generate_impl(decl, elem, args.capacity))
    /\ log' = Append(log, "synthesize")
    /\ stage' = StageAfter(stage, FALSE)
    /\ UNCHANGED <<args, tok, decl, decl0, elem, error, Runtime>>

MacroNext == ParseArgs \/ FindDataField \/ AddFields \/ GenerateImpl

\* Any declaration, with a capacity literal of one digit.
MacroInit ==
    /\ tok \in ShortTokens
    /\ decl \in Decls
    /\ decl0 = decl
    /\ stage = "parse_args"
    /\ args = NoVal /\ elem = NoVal /\ error = NoVal
    /\ log = <<>> /\ out = <<>>
    /\ NoInstance

MacroSpec == MacroInit /\ [][MacroNext]_vars

\* Any capacity token, on the declaration struct B { data: Vec<T> }.
ParseInit ==
    /\ tok \in Tokens
    /\ decl = Decl("Struct", "Named", <<Field(<<"data">>, VecOf("T"))>>)
    /\ decl0 = decl
    /\ stage = "parse_args"
    /\ args = NoVal /\ elem = NoVal /\ error = NoVal
    /\ log = <<>> /\ out = <<>>
    /\ NoInstance

ParseSpec == ParseInit /\ [][MacroNext]_vars

\* ============================================================ properties

\* The occupied logical slots data[(head + i) mod capacity], i in 0..size-1,
\* front to back; a slot that is not an index of data reads as <<>>.
Contents(s) ==
    [i \in 1 .. s.size |->
        IF s.capacity > 0 /\ (s.head + i - 1) % s.capacity < Len(s.data)
        THEN <<At(s.data, (s.head + i - 1) % s.capacity)>>
        ELSE <<>>]

\* C1: the buffer refines the abstract bounded FIFO queue of the same
\* capacity: in every reachable state the occupied slots read from head,
\* wrapping modulo capacity, are the abstract queue front to back, len() is
\* its length, and every call returned what the abstract queue returned (a
\* successful dequeue returned its front element).
C1_RefinesFifo ==
    /\ Contents(self) = [i \in 1 .. Len(queue) |-> <<queue[i]>>]
    /\ len(self) = Len(queue)
    /\ ret = qret

\* C1 witness: a dequeue has just returned an element and the remaining
\* contents wrap around the end of the backing store.
C1_Witness ==
    /\ ret.op = "dequeue" /\ ret.tag = "Some"
    /\ self.size >= 2 /\ self.tail < self.head

\* C2: an enqueue on a full buffer returns Err carrying the same item and
\* changes nothing (head, tail, size, capacity, every slot), so len() and
\* is_full() are unchanged and the next dequeue still returns the oldest
\* element; as this holds of every step, it holds of repeated enqueues.
C2_FullEnqueueRejected ==
    [][(self.size = self.capacity /\ ret'.op = "enqueue") =>
          /\ ret'.tag = "Err"
          /\ ret'.val = ret'.arg
          /\ self' = self
          /\ len(self') = len(self)
          /\ is_full(self')
          /\ queue # <<>>
          /\ dequeue(self').ret = Result("dequeue", NoVal, "Some", <<Head(queue)>>)]_vars

\* C2 witness: an enqueue was rejected on a full buffer whose contents wrap.
C2_Witness ==
    /\ ret.op = "enqueue" /\ ret.tag = "Err"
    /\ self.size = self.capacity /\ self.head # 0

\* C3: a dequeue on an empty buffer (fresh, drained or cleared) returns None
\* and changes nothing, and so does the dequeue after it.
C3_EmptyDequeueNone ==
    [][(self.size = 0 /\ ret'.op = "dequeue") =>
          /\ ret'.tag = "None"
          /\ self' = self
          /\ dequeue(self').ret.tag = "None"
          /\ dequeue(self').self = self]_vars

\* C3 witness: a dequeue returned None on a buffer that was used and
\* drained (its cursors are not at 0).
C3_Witness ==
    /\ ret.op = "dequeue" /\ ret.tag = "None"
    /\ self.size = 0 /\ self.head # 0 /\ Len(self.data) > 0

\* What the i-th call of the wraparound scenario must return.
WrapExpected(i) ==
    LET c == args.capacity
    IN  IF i <= c THEN Result("enqueue", <<ins[i]>>, "Ok", NoVal)
        ELSE IF i <= c + k THEN Result("dequeue", NoVal, "Some", <<ins[i - c]>>)
        ELSE IF i <= c + 2 * k THEN Result("enqueue", <<ins[i - k]>>, "Ok", NoVal)
        ELSE Result("dequeue", NoVal, "Some", <<ins[i - c - k]>>)

\* C4: wraparound.  After filling with e1..ec, dequeuing k < c items and
\* enqueuing n1..nk, every enqueue succeeded, len() = c and is_full() hold,
\* and the c further dequeues return e(k+1)..ec then n1..nk, after which the
\* buffer is empty.
C4_Wraparound ==
    /\ \A i \in 1 .. Len(rets) : rets[i] = WrapExpected(i)
    /\ Len(rets) = args.capacity + 2 * k => len(self) = args.capacity /\ is_full(self)
    /\ pc = "done" => is_empty(self) /\ Len(rets) = 2 * args.capacity + 2 * k

\* C4 witness: the scenario ran to its end with at least two items refilled
\* across the wrap boundary.
C4_Witness == pc = "done" /\ k >= 2 /\ Len(rets) = 2 * args.capacity + 2 * k

\* C5: in every reachable state 0 <= size <= capacity, 0 <= head < capacity
\* and 0 <= tail < capacity.
C5_CounterRanges ==
    /\ 0 <= self.size /\ self.size <= self.capacity
    /\ 0 <= self.head /\ self.head < self.capacity
    /\ 0 <= self.tail /\ self.tail < self.capacity

\* C5 witness: a full buffer whose head is at the last slot, after a call.
C5_Witness ==
    /\ ret.op \in {"enqueue", "dequeue"}
    /\ self.capacity > 1
    /\ self.size = self.capacity /\ self.head = self.capacity - 1

\* C6: every clear() sets head, tail and size to 0, so len() = 0 and
\* is_empty() holds, leaves capacity and the backing store (length and
\* slots) unchanged, and a second clear() changes nothing.
C6_ClearResets ==
    [][ret'.op = "clear" =>
          /\ self'.head = 0 /\ self'.tail = 0 /\ self'.size = 0
          /\ len(self') = 0 /\ is_empty(self')
          /\ self'.capacity = self.capacity
          /\ self'.data = self.data
          /\ clear(self').self = self']_vars

\* C6 witness: the buffer was cleared after its store had grown to capacity.
C6_Witness ==
    /\ ret.op = "clear"
    /\ self.capacity > 1 /\ Len(self.data) = self.capacity

\* C7: after clear() the buffer answers every later call as an instance
\* newly constructed at that clear() does: same success or rejection, same
\* dequeued values, same len(), is_full() and is_empty().
C7_ClearedLikeFresh ==
    /\ ret = fret
    /\ len(self) = len(fresh)
    /\ is_full(self) = is_full(fresh)
    /\ is_empty(self) = is_empty(fresh)

\* C7 witness: a dequeue returned an element while the backing store still
\* holds more slots than the newly constructed instance ever wrote.
C7_Witness ==
    /\ ret.op = "dequeue" /\ ret.tag = "Some"
    /\ Len(self.data) > Len(fresh.data)

\* C8: a freshly constructed instance has head = tail = size = 0, an empty
\* backing store, len() = 0, is_empty(), not is_full(), and capacity() = c.
C8_FreshInstance ==
    ret.op = "new" =>
        /\ self.head = 0 /\ self.tail = 0 /\ self.size = 0
        /\ self.data = <<>>
        /\ len(self) = 0 /\ is_empty(self) /\ ~is_full(self)
        /\ capacity(self) = args.capacity

\* C8 witness: an instance as constructed, for a capacity above 1.
C8_Witness == ret.op = "new" /\ args.capacity > 1 /\ self = new

\* C9: capacity() is the capacity given at generation time in every
\* reachable state, whatever calls were made.
C9_CapacityConstant ==
    /\ capacity(self) = args.capacity
    /\ ret.op = "capacity" => ret.val = <<args.capacity>>

\* C9 witness: capacity() was called on a buffer that has been filled and
\* emptied again.
C9_Witness ==
    /\ ret.op = "capacity"
    /\ Len(self.data) = self.capacity /\ self.size = 0

\* C10: is_empty() holds exactly when size = 0 (nothing enqueued is still
\* waiting), is_full() exactly when size = capacity, len() = size, and
\* is_empty() and is_full() never hold together.
C10_QueriesAgree ==
    /\ is_empty(self) <=> self.size = 0
    /\ is_empty(self) <=> queue = <<>>
    /\ is_full(self) <=> self.size = self.capacity
    /\ len(self) = self.size
    /\ ~(is_empty(self) /\ is_full(self))
    /\ ret.op = "is_empty" => ret.val = <<self.size = 0>>
    /\ ret.op = "is_full" => ret.val = <<self.size = self.capacity>>
    /\ ret.op = "len" => ret.val = <<self.size>>

\* C10 witness: is_full() answered true on a buffer whose contents wrap.
C10_Witness ==
    /\ ret.op = "is_full" /\ ret.val = <<TRUE>>
    /\ self.head # 0

\* C11: the backing store never holds more than capacity elements: once it
\* holds capacity elements, every further successful enqueue overwrites a
\* slot and leaves its length alone, across fill/drain cycles and clears.
C11_StoreBounded ==
    /\ [](Len(self.data) <= self.capacity)
    /\ [][(Len(self.data) = self.capacity /\ ret'.op = "enqueue" /\ ret'.tag = "Ok")
            => Len(self'.data) = self.capacity]_vars

\* C11 witness: an enqueue succeeded on a store already grown to capacity,
\* after a clear left the cursors behind the stale slots.
C11_Witness ==
    /\ ret.op = "enqueue" /\ ret.tag = "Ok"
    /\ self.capacity > 1
    /\ Len(self.data) = self.capacity
    /\ Len(fresh.data) < Len(self.data)

\* C12: no call aborts in any reachable state: no call has aborted, head is
\* an index of the store whenever size > 0, the overwrite branch of enqueue
\* finds tail inside the store, the divisor capacity is not 0, size is at
\* least 1 where dequeue subtracts, and neither the next dequeue nor any
\* next enqueue aborts; fullness and emptiness come back as Err and None.
C12_NoAbort ==
    /\ ret.tag # "Panic"
    /\ self.capacity > 0
    /\ self.size > 0 => self.head < Len(self.data)
    /\ ~is_empty(self) => self.size >= 1
    /\ (~is_full(self) /\ ~(Len(self.data) <= self.tail)) =>
           (0 <= self.tail /\ self.tail < Len(self.data))
    /\ dequeue(self).ret.tag \in {"Some", "None"}
    /\ \A item \in Items : enqueue(self, item).ret.tag \in {"Ok", "Err"}
    /\ is_full(self) => \A item \in Items : enqueue(self, item).ret.tag = "Err"
    /\ is_empty(self) => dequeue(self).ret.tag = "None"

\* C12 witness: a dequeue returned an element read from a slot other than
\* the first, on a store that has not yet grown to capacity.
C12_Witness ==
    /\ ret.op = "dequeue" /\ ret.tag = "Some"
    /\ self.head >= 2
    /\ Len(self.data) < self.capacity

\* C13: capacity 1.  head and tail stay 0; an enqueue succeeds exactly when
\* the buffer is empty and makes it full; an enqueue on the full buffer is
\* rejected with its item; a dequeue on the full buffer returns the stored
\* item, which is the item accepted last, and makes the buffer empty.
C13_CapacityOne ==
    /\ [](args.capacity = 1 => self.head = 0 /\ self.tail = 0)
    /\ [][(args.capacity = 1 /\ ret'.op = "enqueue") =>
            /\ (ret'.tag = "Ok") = is_empty(self)
            /\ ret'.tag = "Ok" => is_full(self') /\ self'.data = ret'.arg
            /\ ret'.tag # "Ok" => ret'.tag = "Err" /\ ret'.val = ret'.arg /\ self' = self]_vars
    /\ [][(args.capacity = 1 /\ ret'.op = "dequeue" /\ is_full(self)) =>
            /\ ret'.tag = "Some"
            /\ ret'.val = self.data
            /\ is_empty(self')]_vars

\* C13 witness: with capacity 1, a dequeue returned the stored item and left
\* the buffer empty.
C13_Witness ==
    /\ args.capacity = 1
    /\ ret.op = "dequeue" /\ ret.tag = "Some"
    /\ is_empty(self)
    /\ ret.val = self.data

\* ---- macro expansion

\* The number a string of decimal digits denotes.
Denotes(digits) ==
    LET n == Len(digits)
        S[i \in 0 .. n] == IF i = 0 THEN 0 ELSE S[i - 1] + digits[i] * 10 ^ (n - i)
    IN  S[n]

\* The argument is one unsigned integer literal, of a value that a usize
\* holds and that is above 0.
ValidCapacity(t) ==
    /\ t.kind = "LitInt" /\ ~t.neg /\ ~t.rest
    /\ Denotes(t.digits) >= 1 /\ Denotes(t.digits) <= USIZE_MAX

\* The kind of the error that ended the expansion, the message of its
\* diagnostic, and the items of the output.
ErrKind == IF error = NoVal THEN "none" ELSE error[1].kind
ErrMsg == IF error = NoVal THEN "none" ELSE to_compile_error(error[1]).body
OutItems == [i \in 1 .. Len(out) |-> out[i].item]

\* The type of the first field named `data` of the declaration as written,
\* in a list: empty when the declaration is no struct with named fields or
\* has no such field.
DataFieldType ==
    IF decl0.data = "Struct" /\ decl0.fields.kind = "Named"
    THEN LET hits == {i \in 1 .. Len(decl0.fields.list) :
                         decl0.fields.list[i].ident = <<"data">>}
         IN  IF hits = {} THEN <<>>
             ELSE <<decl0.fields.list[CHOOSE i \in hits : \A j \in hits : i <= j].ty>>
    ELSE <<>>

\* C14: the capacity parser accepts the argument only if it is an unsigned
\* integer literal of a value above 0, and then yields exactly that value; a
\* literal 0 fails with the zero-capacity diagnostic, any other argument
\* that is no valid unsigned integer with an invalid-capacity diagnostic,
\* and after a failure the output holds no declaration and no impl block.
C14_CapacityParser ==
    stage # "parse_args" =>
        /\ (args # NoVal) <=> ValidCapacity(tok)
        /\ args # NoVal => args.capacity = Denotes(tok.digits) /\ error = NoVal
        /\ (tok.kind = "LitInt" /\ ~tok.neg /\ Denotes(tok.digits) = 0) =>
               ErrMsg = "capacity must be greater than 0"
        /\ (~ValidCapacity(tok) /\ ~(tok.kind = "LitInt" /\ ~tok.neg
                                     /\ Denotes(tok.digits) = 0)) =>
               ErrMsg \in {"expected integer literal",
                           "capacity must be a valid usize", "unexpected token"}
        /\ args = NoVal =>
               /\ stage = "done"
               /\ log = <<"capacity">>
               /\ OutItems = <<"compile_error">>

\* C14 witness: a literal of several digits with a leading zero was accepted
\* and the ring buffer was generated with its value.
C14_Witness ==
    /\ stage = "done" /\ error = NoVal
    /\ tok.digits[1] = 0
    /\ args.capacity >= 10
    /\ out[2].capacity = args.capacity

\* The checks and stages of generation, in the order claimed.
StageOrder ==
    <<"capacity", "struct-kind", "field-naming", "data-presence", "element-type",
      "inject", "synthesize">>

\* The i-th check of StageOrder fails on the input as written.
Violates(i) ==
    CASE i = 1 -> ~ValidCapacity(tok)
      [] i = 2 -> decl0.data # "Struct"
      [] i = 3 -> decl0.fields.kind # "Named"
      [] i = 4 -> \A j \in 1 .. Len(decl0.fields.list) :
                      decl0.fields.list[j].ident # <<"data">>
      [] i = 5 -> DataFieldType # <<>> /\ ~extract_vec_element_type(DataFieldType[1]).ok
      [] OTHER -> FALSE

\* The first failing check of the input, or 0.
FirstViolated ==
    LET bad == {i \in 1 .. Len(StageOrder) : Violates(i)}
    IN  IF bad = {} THEN 0 ELSE CHOOSE i \in bad : \A j \in bad : i <= j

\* The error kind that reports the i-th check.
DiagnosticOf(i) ==
    CASE i = 1 -> "Syn"
      [] i = 2 -> "NotAStruct"
      [] i = 3 -> "NotNamedFields"
      [] i = 4 -> "MissingDataField"
      [] OTHER -> "InvalidDataFieldType"

\* C15: generation runs capacity, struct-kind, field-naming, presence of
\* `data`, element-type extraction, field injection, synthesis in this
\* order; the diagnostic is that of the first check the input fails, and
\* nothing runs after it (the declaration is not injected into).
C15_CheckOrder ==
    /\ Len(log) <= Len(StageOrder)
    /\ log = SubSeq(StageOrder, 1, Len(log))
    /\ stage = "done" =>
          IF FirstViolated = 0
          THEN error = NoVal /\ log = StageOrder
          ELSE /\ ErrKind = DiagnosticOf(FirstViolated)
               /\ log = SubSeq(StageOrder, 1, FirstViolated)
               /\ decl = decl0

\* C15 witness: an input failing the capacity check and the struct-kind
\* check was expanded.
C15_Witness ==
    /\ stage = "done"
    /\ ~ValidCapacity(tok)
    /\ decl0.data = "Enum"

\* C16: with the capacity accepted, a struct with positional fields or with
\* none fails with NotNamedFields, a declaration that is no struct with
\* NotAStruct, and a struct with named fields none of which is named `data`
\* with MissingDataField, each with its own diagnostic.
C16_ShapeErrors ==
    (stage = "done" /\ args # NoVal) =>
        /\ (decl0.data = "Struct" /\ decl0.fields.kind \in {"Unnamed", "Unit"}) =>
               /\ ErrKind = "NotNamedFields"
               /\ ErrMsg = "ring_buffer only works with structs with named fields"
        /\ decl0.data # "Struct" =>
               /\ ErrKind = "NotAStruct"
               /\ ErrMsg = "ring_buffer can only be applied to structs"
        /\ (decl0.data = "Struct" /\ decl0.fields.kind = "Named" /\ DataFieldType = <<>>) =>
               /\ ErrKind = "MissingDataField"
               /\ ErrMsg = "ring_buffer requires a field named 'data' of type Vec<T>"

\* C16 witness: a unit struct was rejected.
C16_Witness ==
    /\ stage = "done" /\ args # NoVal
    /\ decl0.data = "Struct" /\ decl0.fields.kind = "Unit"
    /\ ErrKind = "NotNamedFields"

\* C17 as claimed: a tuple-style or unit-style declaration is rejected with
\* NotAStruct.
C17_TupleIsNotAStruct ==
    (/\ stage = "done" /\ args # NoVal
     /\ decl0.data = "Struct" /\ decl0.fields.kind \in {"Unnamed", "Unit"})
        => ErrKind = "NotAStruct"

\* C17, amended: NotNamedFields is reported exactly for a struct that is
\* tuple-style or unit-style, and NotAStruct exactly for a declaration that
\* is no struct (an enum or a union).
C17_ShapeErrorKinds ==
    (stage = "done" /\ args # NoVal) =>
        /\ ErrKind = "NotNamedFields" <=>
               (decl0.data = "Struct" /\ decl0.fields.kind \in {"Unnamed", "Unit"})
        /\ ErrKind = "NotAStruct" <=> decl0.data # "Struct"

\* C17 witness: a tuple struct was rejected with NotNamedFields.
C17_Witness ==
    /\ stage = "done" /\ args # NoVal
    /\ decl0.data = "Struct" /\ decl0.fields.kind = "Unnamed"
    /\ ErrKind = "NotNamedFields"

\* The last segment of a path type.
LastSegment(ty) == ty.segments[Len(ty.segments)]

\* C18: for the declared type of the `data` field, extraction returns T when
\* the type is Vec<T>, and fails with InvalidDataFieldType when the type is
\* no path type, when its name is not Vec, or when it has no generic
\* argument.
C18_ElementType ==
    (/\ stage \notin {"parse_args", "find_data_field"}
     /\ args # NoVal /\ DataFieldType # <<>>) =>
        LET ty == DataFieldType[1]
        IN  /\ \A name \in {"T", "A"} :
                   ty = VecOf(name) => elem = <<name>> /\ error = NoVal
            /\ (\/ ty.kind # "Path"
                \/ LastSegment(ty).ident # "Vec"
                \/ LastSegment(ty).arguments.kind # "AngleBracketed"
                \/ LastSegment(ty).arguments.args = <<>>) =>
                   /\ ErrKind = "InvalidDataFieldType"
                   /\ ErrMsg = "data field must be of type Vec<T>"
                   /\ elem = NoVal

\* C18 witness: T was extracted from a `data: Vec<T>` that is not the first
\* field of the struct.
C18_Witness ==
    /\ stage = "done" /\ error = NoVal
    /\ Len(decl0.fields.list) >= 2
    /\ decl0.fields.list[1].ident # <<"data">>
    /\ DataFieldType = <<VecOf("T")>>
    /\ elem = <<"T">>

\* C19 as claimed: a `data` field whose type has more than one generic
\* argument, or is written as a path of several segments, is rejected with
\* InvalidDataFieldType.
C19_OnlySingleSegmentSingleArgument ==
    (/\ stage = "done" /\ args # NoVal /\ DataFieldType # <<>>
     /\ DataFieldType[1].kind = "Path"
     /\ \/ Len(DataFieldType[1].segments) > 1
        \/ Len(LastSegment(DataFieldType[1]).arguments.args) > 1)
        => ErrKind = "InvalidDataFieldType"

\* The ring-buffer fields that injection appends.
InjectedNames == <<"capacity", "head", "tail", "size">>

\* C20: a failure of generation (capacity, shape or element type) returns
\* exactly one diagnostic and neither the declaration nor an impl block; a
\* success returns the augmented declaration followed by the impl block with
\* the eight operations; until generation ends nothing is returned.
C20_Output ==
    /\ stage # "done" => out = <<>>
    /\ (stage = "done" /\ error # NoVal) =>
          /\ OutItems = <<"compile_error">>
          /\ out[1].body = ErrMsg
    /\ (stage = "done" /\ error = NoVal) =>
          /\ OutItems = <<"struct", "impl">>
          /\ out[1].body = decl
          /\ LET list == out[1].body.fields.list
                 n == Len(decl0.fields.list)
             IN  /\ Len(list) = n + Len(InjectedNames)
                 /\ SubSeq(list, 1, n) = decl0.fields.list
                 /\ [i \in 1 .. Len(InjectedNames) |-> list[n + i].ident]
                        = [i \in 1 .. Len(InjectedNames) |-> <<InjectedNames[i]>>]
          /\ [i \in 1 .. Len(out[2].methods) |-> out[2].methods[i].name]
                 = <<"new", "enqueue", "dequeue", "is_full", "is_empty", "len",
                     "capacity", "clear">>

\* C20 witness: generation ended on an element-type failure with its one
\* diagnostic.
C20_Witness ==
    /\ stage = "done"
    /\ ErrKind = "InvalidDataFieldType"
    /\ Len(out) = 1


\* The log records that field injection ran.
Injected == \E i \in 1 .. Len(log) : log[i] = "inject"

\* C21: for every validated declaration, field injection leaves a field
\* list that is the caller's field list, in its order and with every field
\* as written, followed by exactly capacity, head, tail, size of type usize
\* in this order; nothing else of the declaration changes, and injection
\* does not fail: it reports no error and synthesis runs next.
C21_FieldInjection ==
    /\ [](IF Injected
          THEN /\ decl = [decl0 EXCEPT !.fields.list =
                            @ \o [i \in 1 .. Len(InjectedNames) |->
                                     Field(<<InjectedNames[i]>>, UsizeType)]]
               /\ SubSeq(decl.fields.list, 1, Len(decl0.fields.list)) = decl0.fields.list
               /\ Len(decl.fields.list) = Len(decl0.fields.list) + Len(InjectedNames)
               /\ error = NoVal
          ELSE decl = decl0)
    /\ [][stage = "add_fields" =>
            /\ find_data_field(decl0).ok
            /\ Injected'
            /\ error' = NoVal
            /\ stage' = "generate_impl"]_vars

\* C21 witness: injection ran on a declaration with two fields, the `data`
\* field not being the first.
C21_Witness ==
    /\ Injected
    /\ Len(decl0.fields.list) = 2
    /\ decl0.fields.list[1].ident = <<"other">>
    /\ decl.fields.list[2].ident = <<"data">>
    /\ decl.fields.list[6].ident = <<"size">>


Slots(s) == 0 .. (Len(s.data) - 1)

\* C23: an enqueue(item) on a buffer with size < capacity succeeds;
\* afterwards slot tail (the tail of before) holds item, tail has advanced
\* by one modulo capacity, size has grown by one, head and capacity are as
\* before, and every other slot is as before; the item was appended when
\* the store's length was <= tail and has replaced slot tail otherwise.
C23_EnqueueEffect ==
    [][(self.size < self.capacity /\ ret'.op = "enqueue") =>
          /\ ret'.tag = "Ok"
          /\ self.tail \in Slots(self')
          /\ <<At(self'.data, self.tail)>> = ret'.arg
          /\ self'.tail = (self.tail + 1) % self.capacity
          /\ self'.size = self.size + 1
          /\ self'.head = self.head
          /\ self'.capacity = self.capacity
          /\ \A i \in Slots(self) \ {self.tail} :
                 i \in Slots(self') /\ At(self'.data, i) = At(self.data, i)
          /\ IF Len(self.data) <= self.tail
             THEN self'.data = Append(self.data, ret'.arg[1])
             ELSE /\ Len(self'.data) = Len(self.data)
                  /\ self'.data = SetAt(self.data, self.tail, ret'.arg[1])]_vars

\* C23 witness: an enqueue has replaced a stale slot in the middle of the
\* store while other elements were waiting.
C23_Witness ==
    /\ ret.op = "enqueue" /\ ret.tag = "Ok"
    /\ self.size >= 2
    /\ self.tail >= 2 /\ self.tail < Len(self.data)
    /\ self.head # 0


\* C24: a dequeue() on a buffer with size > 0 returns the element at slot
\* head (the head of before); afterwards head has advanced by one modulo
\* capacity and size has shrunk by one, while tail, capacity and the whole
\* backing store are as before: its length, and every slot, the one just
\* read included.
C24_DequeueFrame ==
    [][(self.size > 0 /\ ret'.op = "dequeue") =>
          /\ ret'.tag = "Some"
          /\ self.head \in Slots(self)
          /\ ret'.val = <<At(self.data, self.head)>>
          /\ self'.head = (self.head + 1) % self.capacity
          /\ self'.size = self.size - 1
          /\ self'.tail = self.tail
          /\ self'.capacity = self.capacity
          /\ Len(self'.data) = Len(self.data)
          /\ At(self'.data, self.head) = At(self.data, self.head)
          /\ self'.data = self.data]_vars

\* C24 witness: a dequeue returned the element of the last slot, head has
\* wrapped to 0, and the slot still holds the returned element.
C24_Witness ==
    /\ ret.op = "dequeue" /\ ret.tag = "Some"
    /\ self.capacity > 1
    /\ self.head = 0 /\ self.size > 0
    /\ Len(self.data) = self.capacity
    /\ ret.val = <<At(self.data, self.capacity - 1)>>


\* C25: in every reachable state tail <= the store's length, so an enqueue
\* takes the append branch (length <= tail) only with length = tail, and
\* the appended item lands at slot tail; the store's length never
\* decreases, dequeue and clear leave it alone, and it grows, by exactly
\* one, only on such an appending enqueue.
C25_StoreGrowth ==
    /\ [](self.tail <= Len(self.data))
    /\ [][/\ Len(self'.data) >= Len(self.data)
          /\ ret'.op \in {"dequeue", "clear"} => Len(self'.data) = Len(self.data)
          /\ (ret'.op = "enqueue" /\ ret'.tag = "Ok" /\ Len(self.data) <= self.tail) =>
                 /\ Len(self.data) = self.tail
                 /\ self'.data = Append(self.data, ret'.arg[1])
                 /\ <<At(self'.data, self.tail)>> = ret'.arg
          /\ Len(self'.data) # Len(self.data) =>
                 /\ ret'.op = "enqueue" /\ ret'.tag = "Ok"
                 /\ Len(self.data) = self.tail
                 /\ Len(self'.data) = Len(self.data) + 1]_vars

\* C25 witness: an enqueue has appended to a store that elements had
\* already been dequeued from, and tail is the store's length again.
C25_Witness ==
    /\ ret.op = "enqueue" /\ ret.tag = "Ok"
    /\ self.tail = Len(self.data)
    /\ self.tail >= 2 /\ self.head >= 1

\* C26: in every reachable state tail = (head + size) mod capacity; hence
\* head = tail exactly when the buffer is empty or full, and of two states
\* with head = tail it is size that tells which: is_empty() and is_full()
\* read size and never hold together.
C26_TailFromHeadAndSize ==
    /\ self.capacity > 0
    /\ self.tail = (self.head + self.size) % self.capacity
    /\ (self.head = self.tail) <=> (self.size = 0 \/ self.size = self.capacity)
    /\ (self.head = self.tail) <=> (is_empty(self) \/ is_full(self))
    /\ self.head = self.tail =>
           /\ is_empty(self) <=> self.size = 0
           /\ is_full(self) <=> self.size = self.capacity
           /\ is_empty(self) # is_full(self)

\* C26 witness: a full buffer with head = tail at a slot other than the
\* first, which an empty buffer reaches as well with the same cursors.
C26_Witness ==
    /\ ret.op = "enqueue" /\ ret.tag = "Ok"
    /\ self.capacity > 1
    /\ self.head = self.tail /\ self.head # 0
    /\ is_full(self)
    /\ dequeue(self).self.head # dequeue(self).self.tail

====
